---- MODULE Spec2Model ----
(***************************************************************************)
(* Model of the shopping cart service (src/app.py): the cart collection,   *)
(* the donation service's availability flags, and the request handlers     *)
(* add_to_cart, get_cart, remove_from_cart, claim_item and clear_all_cart. *)
(* Requests run in threads of the web server; each store operation and     *)
(* each HTTP call to a collaborator is one atomic step, and the handlers   *)
(* interleave between those steps.                                         *)
(***************************************************************************)
EXTENDS FiniteSets, Integers, Sequences, TLC

\* ---------------------------------------------------------------- bounds
MaxIds == 2        \* ObjectIds the store hands out in one behaviour
MaxSlots == 2      \* requests in flight at the same time
MaxTime == 1       \* distinct readings of datetime.utcnow()

Principals == {"ua", "ub"}
Donations == {"d1", "d2"}
NotesVals == {""}          \* the notes a client sends, when it sends any

Ids == 1..MaxIds
Slots == 1..MaxSlots       \* the server's worker threads, one request each
Times == 1..MaxTime

\* A path parameter <cart_item_id>: 0 stands for a string that is not an
\* ObjectId, MaxIds + 1 for a well-formed id the store never handed out.
CartItemIds == 0..(MaxIds + 1)

Absent == "absent"          \* a key missing from a document or a JSON body
NoItem == [none |-> TRUE]   \* find_one returned None / no document under an id
NoBody == [none |-> TRUE]   \* request.get_json() returned None
NoData == [none |-> TRUE]   \* donation_data not assigned yet
InvalidId == -1             \* ObjectId() raised
NoTime == 0                 \* a document without the claimed_at key

\* The JSON bodies a client can post to /cart.
Bodies == {NoBody} \cup [donation_id : Donations \cup {Absent},
                         notes : NotesVals \cup {Absent}]

VARIABLES
  cart,        \* mongo.db.cart: id -> document, or NoItem
  nextId,      \* the next ObjectId the store generates
  available,   \* the donation service: donation -> its 'available' flag
  req,         \* per request slot: the handler's position and locals
  ledger,      \* history: donation -> the claim whose PATCH was applied to it
  tally        \* history: item id -> the effects claims of it have had so far

vars == <<cart, nextId, available, req, ledger, tally>>

\* ---------------------------------------------------------------- store
\* bson.ObjectId(s): raises on a malformed string, otherwise the id.
ObjectId(s) == IF s = 0 THEN InvalidId ELSE s

\* mongo.db.cart.find_one({"_id": obj_id})
FindOne(c, oid) == IF oid \in Ids THEN c[oid] ELSE NoItem

\* mongo.db.cart.find({"user_email": u}): the ids of u's documents
FindByUser(c, u) == {i \in Ids : c[i] # NoItem /\ c[i].user_email = u}

\* Mutation: the collection has no unique index.
NoUniqueIndex(c, doc) == FALSE

\* The unique index on (user_email, donation_id) rejects the insert.
DuplicateKey(c, doc) ==
  \E i \in Ids : /\ c[i] # NoItem
                 /\ c[i].user_email = doc.user_email
                 /\ c[i].donation_id = doc.donation_id

\* The documents of a cursor, in the store's natural (insertion) order.
RECURSIVE Cursor(_, _)
Cursor(c, S) ==
  IF S = {} THEN <<>>
  ELSE LET m == CHOOSE x \in S : \A y \in S : x <= y
       IN <<[_id |-> m, doc |-> c[m]]>> \o Cursor(c, S \ {m})

\* ---------------------------------------------------------------- responses
NoSummary == [message |-> "none"]
Resp(code, error, body) == [code |-> code, error |-> error, body |-> body]
NoResp == Resp(0, "none", NoSummary)

\* One entry of a handler's trace: a store operation or a collaborator call
\* it made, and how that went.
Ev(call, result) == [call |-> call, result |-> result]

\* A worker's state: the handler's label, the request (op, user, arg), the
\* handler's locals (item, donation_data), its trace (log), and the response.
\* retry: the request repeats the claim this worker just answered with 503.
Idle == [pc |-> "idle", op |-> "none", user |-> "none", arg |-> 0,
         donation_id |-> "none", item |-> NoItem, donation_data |-> NoData,
         log |-> <<>>, resp |-> NoResp, retry |-> FALSE]

\* A handler has returned and its response is on its way out.  The server
\* sends it before any other handler's next step is looked at: sending
\* changes nothing a handler can read, so no behaviour of the program is lost.
Responding == \E t \in Slots : req[t].pc = "done"

\* A worker without a request takes the next one.
Free(s) == req[s].pc = "idle" /\ ~Responding

\* The client of slot s got a 503 for a claim; it may send the claim again.
Retrying(s) ==
  req[s].pc = "done" /\ req[s].op = "claim" /\ req[s].resp.code = 503

\* The handler in slot s is at label l.
At(s, l) == req[s].pc = l /\ ~Responding

\* The handler returns response resp; its locals go out of scope.
Done(r, resp) == [r EXCEPT !.pc = "done", !.resp = resp,
                           !.item = NoItem, !.donation_data = NoData]

\* The handler goes on to label l after the step logged as ev.
Goto(r, l, ev) == [r EXCEPT !.pc = l, !.log = Append(@, ev)]

\* The handler returns resp after the step logged as ev.
Fail(r, ev, code, error) ==
  Done([r EXCEPT !.log = Append(@, ev)], Resp(code, error, NoSummary))

\* ---------------------------------------------------------------- gateway
\* requests.get(".../api/donations/<d>"): a 200 carrying the donation's
\* available flag, a non-200 status, or a transport exception.
GatewayGet(d) == {IF available[d] THEN "available" ELSE "unavailable",
                  "status", "exception"}

\* requests.patch(".../availability", {"available": False}): the donation
\* service flips the flag as one atomic conditional update.  A 200 only when
\* the donation was available; a non-200 status otherwise or on rejection; a
\* transport exception either before the service applied the flip or after.
GatewayPatch(d) ==
  (IF available[d] THEN {[kind |-> "ok", applied |-> TRUE],
                         [kind |-> "exception", applied |-> TRUE]}
                   ELSE {})
  \cup {[kind |-> "status", applied |-> FALSE],
        [kind |-> "exception", applied |-> FALSE]}

\* ledger[d].item is the cart item whose claim had its PATCH applied to d,
\* and ledger[d].fate what became of that claim: "won" when it committed the
\* item, "window" when it ended without committing (d unavailable, the item
\* not claimed), "none" while nothing is known.
NoEntry == [fate |-> "none", item |-> 0]
Entry(fate, s) == [fate |-> fate, item |-> req[s].arg]

\* tally[i] records, for the item with id i, what claims of it have done so
\* far: made a PATCH call (sent), had a PATCH answered 200 (ok), written the
\* item claimed (commit), attempted a notification (notify).
NoTally == [sent |-> FALSE, ok |-> FALSE, commit |-> FALSE, notify |-> FALSE]

Init ==
  /\ cart = [i \in Ids |-> NoItem]
  /\ nextId = 1
  /\ available \in [Donations -> BOOLEAN]
  /\ req = [s \in Slots |-> Idle]
  /\ ledger = [d \in Donations |-> NoEntry]
  /\ tally = [i \in Ids |-> NoTally]

\* ---------------------------------------------------------------- add
\* The document add_to_cart builds (lines 111-117).
CartItem(u, data, now) ==
  [user_email |-> u,
   donation_id |-> data.donation_id,
   notes |-> IF data.notes = Absent THEN "" ELSE data.notes,
   created_at |-> now,
   status |-> "pending",
   claimed_at |-> NoTime]

\* Mutation: the add looks at the status code only, not at 'available'.
AddAllowedOnAny200(g) == g \in {"available", "unavailable"}

\* The lookup's answer lets the add go on (line 108).
AddAllowed(g) == g = "available"

\* POST /cart, up to the donation lookup (lines 100-117).
AddToCart(s) ==
  /\ Free(s)
  /\ nextId + Cardinality({t \in Slots : req[t].pc = "add_insert"}) <= MaxIds
  /\ \E u \in Principals, data \in Bodies, now \in Times :
       LET r == [Idle EXCEPT !.op = "add", !.user = u] IN
       IF data = NoBody \/ data.donation_id = Absent
       THEN req' = [req EXCEPT ![s] =
                      Done(r, Resp(400, "InvalidInput", NoSummary))]
       ELSE \E g \in GatewayGet(data.donation_id) :
              LET q == [r EXCEPT !.donation_id = data.donation_id] IN
              req' = [req EXCEPT ![s] =
                CASE g = "exception" ->
                       Fail(q, Ev("GET", g), 500, "UnhandledException")
                  [] g # "exception" /\ ~AddAllowed(g) ->
                       Fail(q, Ev("GET", g), 404, "NotAvailable")
                  [] OTHER ->
                       Goto([q EXCEPT !.item = CartItem(u, data, now)],
                            "add_insert", Ev("GET", g))]
  /\ UNCHANGED <<cart, nextId, available, ledger, tally>>

\* mongo.db.cart.insert_one(cart_item) and the response (lines 119-124).
AddInsert(s) ==
  /\ At(s, "add_insert")
  /\ \E storeFault \in BOOLEAN :
       CASE storeFault ->
              /\ req' = [req EXCEPT ![s] =
                   Fail(req[s], Ev("INSERT", "fault"), 400, "AlreadyInCart")]
              /\ UNCHANGED <<cart, nextId>>
         [] ~storeFault /\ DuplicateKey(cart, req[s].item) ->
              /\ req' = [req EXCEPT ![s] =
                   Fail(req[s], Ev("INSERT", "duplicate"), 400, "AlreadyInCart")]
              /\ UNCHANGED <<cart, nextId>>
         [] OTHER ->
              /\ cart' = [cart EXCEPT ![nextId] = req[s].item]
              /\ nextId' = nextId + 1
              /\ req' = [req EXCEPT ![s] =
                   Done([req[s] EXCEPT !.log = Append(@, Ev("INSERT", "ok")),
                                       !.arg = nextId],
                        Resp(201, "none", [status |-> "pending"]))]
  /\ UNCHANGED <<available, ledger, tally>>

\* ---------------------------------------------------------------- list
\* Mutation: the loop appends the item whatever the status of the lookup.
RECURSIVE EnhanceKeepsAll(_, _, _)
EnhanceKeepsAll(user_cart, results, n) ==
  IF n = 0 THEN <<>>
  ELSE EnhanceKeepsAll(user_cart, results, n - 1) \o <<user_cart[n]>>

\* The enhancing loop (lines 164-185) over the first n documents of the
\* cursor: a lookup answering 200 appends the item, another status skips it.
\* results[k] is the answer to the lookup for the k-th document; the loop
\* made m lookups, all of them unless the m-th raised.
RECURSIVE Enhance(_, _, _)
Enhance(user_cart, results, n) ==
  IF n = 0 THEN <<>>
  ELSE Enhance(user_cart, results, n - 1)
       \o (IF results[n] = "ok" THEN <<user_cart[n]>> ELSE <<>>)

\* GET /cart (lines 160-187).  The lookups read only the status code, which
\* does not depend on the cart or on availability, so the find and the loop
\* are one step.  A transport exception in a lookup leaves the handler there.
GetCart(s) ==
  /\ Free(s)
  /\ \E u \in Principals :
       LET user_cart == Cursor(cart, FindByUser(cart, u))
           n == Len(user_cart)
           r == [Idle EXCEPT !.op = "list", !.user = u]
       IN \E m \in 0..n :
          \E results \in [1..m -> {"ok", "status", "exception"}] :
            LET stop == {k \in 1..m : results[k] = "exception"}
                log == [k \in 1..m |-> Ev("GET", results[k])]
            IN /\ stop \subseteq {m}
               /\ stop = {} => m = n
               /\ req' = [req EXCEPT ![s] =
                    IF stop # {}
                    THEN Done([r EXCEPT !.log = <<Ev("FIND", "ok")>> \o log],
                              Resp(500, "UnhandledException", NoSummary))
                    ELSE Done([r EXCEPT !.log = <<Ev("FIND", "ok")>> \o log],
                              Resp(200, "none",
                                   [items |-> Enhance(user_cart, results, n)]))]
  /\ UNCHANGED <<cart, nextId, available, ledger, tally>>

\* ---------------------------------------------------------------- remove
\* Mutation: the lookup filters on the owner, so that another principal's
\* item is reported as missing.
RemoveChecksOwnFilter(c, u, cart_item_id) ==
  LET obj_id == ObjectId(cart_item_id)
      item == FindOne(c, obj_id)
  IN CASE obj_id = InvalidId -> "InvalidInput"
       [] obj_id # InvalidId /\ item = NoItem -> "NotFound"
       [] obj_id # InvalidId /\ item # NoItem /\ item.user_email # u -> "NotFound"
       [] OTHER -> "ok"

\* The checks of remove_from_cart before the delete (lines 215-225): the
\* error they end in, or "ok".
RemoveChecks(c, u, cart_item_id) ==
  LET obj_id == ObjectId(cart_item_id)
      item == FindOne(c, obj_id)
  IN CASE obj_id = InvalidId -> "InvalidInput"
       [] obj_id # InvalidId /\ item = NoItem -> "NotFound"
       [] obj_id # InvalidId /\ item # NoItem /\ item.user_email # u -> "Forbidden"
       [] OTHER -> "ok"

\* HTTP status of an error kind.
StatusOf(error) ==
  CASE error = "InvalidInput" -> 400
    [] error = "NotFound" -> 404
    [] error = "Forbidden" -> 403
    [] error = "AlreadyProcessed" -> 400
    [] OTHER -> 500

\* The store lookups a handler made before its checks ended in outcome c.
LookupLog(c) == IF c = "InvalidInput" THEN <<>> ELSE <<Ev("FIND", "ok")>>

\* DELETE /cart/<id>: parse, find_one, ownership (lines 213-225).
RemoveFromCart(s) ==
  /\ Free(s)
  /\ \E u \in Principals, cart_item_id \in CartItemIds :
       LET c == RemoveChecks(cart, u, cart_item_id)
           r == [Idle EXCEPT !.op = "remove", !.user = u, !.arg = cart_item_id,
                             !.log = LookupLog(c)]
       IN req' = [req EXCEPT ![s] =
            IF c # "ok"
            THEN Done(r, Resp(StatusOf(c), c, NoSummary))
            ELSE [r EXCEPT !.pc = "remove_delete",
                           !.donation_id = cart[cart_item_id].donation_id]]
  /\ UNCHANGED <<cart, nextId, available, ledger, tally>>

\* mongo.db.cart.delete_one({"_id": obj_id}) and the response (lines 227-231).
RemoveDelete(s) ==
  /\ At(s, "remove_delete")
  /\ LET obj_id == ObjectId(req[s].arg) IN
     IF cart[obj_id] # NoItem
     THEN /\ cart' = [cart EXCEPT ![obj_id] = NoItem]
          /\ req' = [req EXCEPT ![s] =
               Done([req[s] EXCEPT !.log = Append(@, Ev("DELETE", "ok"))],
                    Resp(200, "none", [message |-> "Item removed from cart"]))]
     ELSE /\ cart' = cart
          /\ req' = [req EXCEPT ![s] =
               Fail(req[s], Ev("DELETE", "none"), 404, "NotFound")]
  /\ UNCHANGED <<nextId, available, ledger, tally>>

\* ---------------------------------------------------------------- clear
\* Mutation: delete_many runs without the user_email filter.
ClearEverything(c, u) == {i \in Ids : c[i] # NoItem}

\* Mutation: delete_many also filters on status pending.
ClearPendingOnly(c, u) ==
  {i \in FindByUser(c, u) : c[i].status = "pending"}

\* The documents delete_many({"user_email": u}) removes (lines 436-438).
ClearFilter(c, u) == FindByUser(c, u)

\* DELETE /cart/clear-all (lines 434-445).
ClearAllCart(s) ==
  /\ Free(s)
  /\ \E u \in Principals :
       LET mine == ClearFilter(cart, u)
           deleted_count == Cardinality(mine)
           r == [Idle EXCEPT !.op = "clear", !.user = u,
                             !.log = <<Ev("DELETE", "ok")>>]
       IN /\ cart' = [i \in Ids |-> IF i \in mine THEN NoItem ELSE cart[i]]
          /\ req' = [req EXCEPT ![s] =
               IF deleted_count > 0
               THEN Done(r, Resp(200, "none",
                              [message |-> "Cart completely cleared",
                               deleted_count |-> deleted_count]))
               ELSE Done(r, Resp(404, "NothingToClear", NoSummary))]
  /\ UNCHANGED <<nextId, available, ledger, tally>>

\* ---------------------------------------------------------------- claim
\* Mutation: the "already claimed" shortcut is missing.
ClaimChecksNoShortcut(c, u, cart_item_id) ==
  LET obj_id == ObjectId(cart_item_id)
      item == FindOne(c, obj_id)
  IN CASE obj_id = InvalidId -> "InvalidInput"
       [] obj_id # InvalidId /\ item = NoItem -> "NotFound"
       [] obj_id # InvalidId /\ item # NoItem /\ item.user_email # u -> "Forbidden"
       [] obj_id # InvalidId /\ item # NoItem /\ item.user_email = u
            /\ item.status # "pending" -> "AlreadyProcessed"
       [] OTHER -> "ok"

\* The checks of claim_item before the gateway is called (lines 272-298):
\* the outcome they end in, or "ok".
ClaimChecks(c, u, cart_item_id) ==
  LET obj_id == ObjectId(cart_item_id)
      item == FindOne(c, obj_id)
  IN CASE obj_id = InvalidId -> "InvalidInput"
       [] obj_id # InvalidId /\ item = NoItem -> "NotFound"
       [] obj_id # InvalidId /\ item # NoItem /\ item.user_email # u -> "Forbidden"
       [] obj_id # InvalidId /\ item # NoItem /\ item.user_email = u
            /\ item.status = "claimed" -> "AlreadyClaimed"
       [] obj_id # InvalidId /\ item # NoItem /\ item.user_email = u
            /\ item.status \notin {"claimed", "pending"} -> "AlreadyProcessed"
       [] OTHER -> "ok"

\* The summary of the "already claimed" answer (lines 287-292).
AlreadyClaimedSummary(cart_item_id, item) ==
  [message |-> "Item already claimed", item_id |-> cart_item_id,
   status |-> "claimed", donation_id |-> item.donation_id]

\* The summary of a fresh claim (lines 398-408).
ClaimedSummary(cart_item_id, item) ==
  [message |-> "Item claimed successfully", item_id |-> cart_item_id,
   donation_id |-> item.donation_id, status |-> "claimed"]

\* claim_item up to the gateway call: parse, find_one, ownership, status
\* (lines 270-298), for the request of principal u for cart_item_id.
ClaimBegin(s, u, cart_item_id, retry) ==
       LET c == ClaimChecks(cart, u, cart_item_id)
           item == FindOne(cart, ObjectId(cart_item_id))
           r == [Idle EXCEPT !.op = "claim", !.user = u, !.arg = cart_item_id,
                             !.log = LookupLog(c), !.retry = retry]
       IN /\ req' = [req EXCEPT ![s] =
            CASE c = "ok" ->
                   [r EXCEPT !.pc = "claim_get", !.item = item,
                             !.donation_id = item.donation_id]
              [] c = "AlreadyClaimed" ->
                   Done([r EXCEPT !.donation_id = item.donation_id],
                        Resp(200, "none",
                             AlreadyClaimedSummary(cart_item_id, item)))
              [] OTHER -> Done(r, Resp(StatusOf(c), c, NoSummary))]
          /\ UNCHANGED <<cart, nextId, available, ledger, tally>>

\* POST /cart/<id>/claim (lines 233-298).
ClaimItem(s) ==
  /\ Free(s)
  /\ \E u \in Principals, cart_item_id \in CartItemIds :
       ClaimBegin(s, u, cart_item_id, FALSE)

\* The client that was answered 503 sends the same claim again.
ClaimRetry(s) ==
  /\ Retrying(s)
  /\ ClaimBegin(s, req[s].user, req[s].arg, TRUE)

\* Mutation: the claim does not look at the 'available' flag of the answer.
GetVerdictIgnoresAvailable(g) ==
  CASE g = "exception" -> "UpstreamUnavailable"
    [] g = "status" -> "VerificationFailed"
    [] OTHER -> "ok"

\* What claim_item does with the lookup's answer (lines 306-325): the error
\* it returns, or "ok" to go on to the PATCH.
GetVerdict(g) ==
  CASE g = "exception" -> "UpstreamUnavailable"
    [] g = "status" -> "VerificationFailed"
    [] g = "unavailable" -> "DonationNotAvailable"
    [] OTHER -> "ok"

\* Step "verify donation is still available" (lines 300-325).
ClaimGet(s) ==
  /\ At(s, "claim_get")
  /\ \E g \in GatewayGet(req[s].item.donation_id) :
       LET v == GetVerdict(g) IN
       req' = [req EXCEPT ![s] =
         IF v = "ok"
         THEN Goto([req[s] EXCEPT !.donation_data = [available |-> TRUE]],
                   "claim_patch", Ev("GET", g))
         ELSE Fail(req[s], Ev("GET", g),
                   IF v = "UpstreamUnavailable" THEN 503 ELSE 400, v)]
  /\ UNCHANGED <<cart, nextId, available, ledger, tally>>

\* Mutation: the status code of the PATCH's answer is not looked at.
PatchVerdictIgnoresStatus(kind) ==
  IF kind = "exception" THEN "UpstreamUnavailable" ELSE "ok"

\* Mutation: a transport exception of the PATCH is swallowed.
PatchVerdictSwallowsException(kind) ==
  IF kind = "status" THEN "UpdateFailed" ELSE "ok"

\* Mutation: a transport exception of the PATCH is reported as a refusal.
PatchVerdictExceptionAsRefusal(kind) ==
  IF kind = "ok" THEN "ok" ELSE "UpdateFailed"

\* What claim_item does with the PATCH's answer (lines 338-348): the error
\* it returns, or "ok" to go on to the commit.
PatchVerdict(kind) ==
  CASE kind = "exception" -> "UpstreamUnavailable"
    [] kind = "status" -> "UpdateFailed"
    [] OTHER -> "ok"

\* Step "update donation availability" (lines 327-348).
ClaimPatch(s) ==
  /\ At(s, "claim_patch")
  /\ LET d == req[s].item.donation_id IN
     \E g \in GatewayPatch(d) :
       LET v == PatchVerdict(g.kind) IN
       /\ available' = IF g.applied THEN [available EXCEPT ![d] = FALSE]
                                    ELSE available
       /\ req' = [req EXCEPT ![s] =
            IF v = "ok"
            THEN Goto(req[s], "claim_commit", Ev("PATCH", g.kind))
            ELSE Fail(req[s], Ev("PATCH", g.kind),
                      IF v = "UpstreamUnavailable" THEN 503 ELSE 400, v)]
       /\ ledger' = IF g.applied /\ v # "ok"
                    THEN [ledger EXCEPT ![d] = Entry("window", s)] ELSE ledger
       /\ tally' = [tally EXCEPT ![req[s].arg] =
                       [@ EXCEPT !.sent = TRUE, !.ok = @ \/ g.kind = "ok"]]
  /\ UNCHANGED <<cart, nextId>>

\* Mutation: the commit writes another status.
SetCancelled(doc, now) == [doc EXCEPT !.status = "cancelled", !.claimed_at = now]

\* Mutation: the commit does not write claimed_at.
SetClaimedNoTimestamp(doc, now) == [doc EXCEPT !.status = "claimed"]

\* Mutation: the write replaces the document instead of setting two fields,
\* so that the notes are lost.
SetClaimedDropsNotes(doc, now) ==
  [doc EXCEPT !.status = "claimed", !.claimed_at = now, !.notes = Absent]

\* update_one({"_id": obj_id}, {"$set": ...}): the document after the write.
SetClaimed(doc, now) == [doc EXCEPT !.status = "claimed", !.claimed_at = now]

\* update_one({"_id": obj_id}, ...): the collection after the write; a filter
\* that matches no document writes nothing.
UpdateOne(c, obj_id, now) ==
  IF c[obj_id] # NoItem THEN [c EXCEPT ![obj_id] = SetClaimed(@, now)] ELSE c

\* How the update_one call went: it raised ("fault"), it modified no document
\* ("none"), or it modified one ("ok").
CommitResult(c, obj_id, now, storeFault) ==
  CASE storeFault -> "fault"
    [] ~storeFault /\ UpdateOne(c, obj_id, now) = c -> "none"
    [] OTHER -> "ok"

\* Mutation: modified_count is not looked at.
CommitVerdictIgnoresCount(result) ==
  IF result = "fault" THEN "InternalError" ELSE "ok"

\* Mutation: an exception of the store write is swallowed.
CommitVerdictSwallowsFault(result) ==
  IF result = "none" THEN "InternalError" ELSE "ok"

\* What claim_item does with the outcome of the write (lines 360-370): the
\* error it returns, or "ok" to go on to the notification.
CommitVerdict(result) ==
  IF result = "ok" THEN "ok" ELSE "InternalError"

\* Step "update cart item status" (lines 350-370).
ClaimCommit(s) ==
  /\ At(s, "claim_commit")
  /\ LET obj_id == ObjectId(req[s].arg) IN
     \E storeFault \in BOOLEAN, now \in Times :
       LET result == CommitResult(cart, obj_id, now, storeFault)
           v == CommitVerdict(result)
       IN /\ cart' = IF result = "fault" THEN cart
                                         ELSE UpdateOne(cart, obj_id, now)
          /\ ledger' = [ledger EXCEPT ![req[s].donation_id] =
                          Entry(IF result = "ok" THEN "won" ELSE "window", s)]
          /\ req' = [req EXCEPT ![s] =
               IF v = "ok"
               THEN Goto(req[s], "claim_notify", Ev("COMMIT", result))
               ELSE Fail(req[s], Ev("COMMIT", result), 500, v)]
          /\ tally' = [tally EXCEPT ![req[s].arg] =
                          [@ EXCEPT !.commit = @ \/ result = "ok"]]
  /\ UNCHANGED <<nextId, available>>

\* Mutation: a failed notification fails the claim.
NotifyVerdictPropagates(n) == IF n = "ok" THEN 200 ELSE 500

\* The status claim_item answers with after the notification went as n
\* (lines 372-408): failures are printed and the success answer follows.
NotifyVerdict(n) == 200

\* Step "send notification to donor" and the success answer (lines 372-408).
\* "keyerror": building notification_data raised before any POST was sent.
ClaimNotify(s) ==
  /\ At(s, "claim_notify")
  /\ \E n \in {"ok", "status", "exception", "keyerror"} :
       LET code == NotifyVerdict(n)
           r == [req[s] EXCEPT !.log = Append(@, Ev("NOTIFY", n))]
       IN req' = [req EXCEPT ![s] =
            IF code = 200
            THEN Done(r, Resp(200, "none", ClaimedSummary(req[s].arg, req[s].item)))
            ELSE Done(r, Resp(code, "InternalError", NoSummary))]
  /\ tally' = [tally EXCEPT ![req[s].arg] =
                  [@ EXCEPT !.notify = TRUE]]
  /\ UNCHANGED <<cart, nextId, available, ledger>>

\* ---------------------------------------------------------------- server
\* The response is sent and the worker is free for the next request.
Respond(s) ==
  /\ req[s].pc = "done"
  /\ req' = [req EXCEPT ![s] = Idle]
  /\ UNCHANGED <<cart, nextId, available, ledger, tally>>

Next ==
  \E s \in Slots :
    \/ AddToCart(s)
    \/ AddInsert(s)
    \/ GetCart(s)
    \/ RemoveFromCart(s)
    \/ RemoveDelete(s)
    \/ ClearAllCart(s)
    \/ ClaimItem(s)
    \/ ClaimGet(s)
    \/ ClaimPatch(s)
    \/ ClaimCommit(s)
    \/ ClaimNotify(s)
    \/ Respond(s)

Spec == Init /\ [][Next]_vars

\* The service with clients that repeat a claim answered 503.
NextRetry ==
  \/ Next
  \/ \E s \in Slots : ClaimRetry(s)

SpecRetry == Init /\ [][NextRetry]_vars

\* ================================================================ properties
Last(q) == q[Len(q)]
Exists(i) == cart[i] # NoItem
Exists2(i) == cart'[i] # NoItem

\* Slot s takes a step.
Steps(s) == req'[s] # req[s]

\* Slot s makes a step that adds entry ev to its trace.
Logs(s, ev) ==
  /\ Len(req'[s].log) = Len(req[s].log) + 1
  /\ req'[s].op = req[s].op
  /\ Last(req'[s].log) = ev

\* Slot s starts handling a request of kind op.
Starts(s, op) ==
  /\ req[s].pc \in {"idle", "done"}
  /\ Steps(s)
  /\ req'[s].op = op

\* The trace holds a call to a collaborator.
External(log) ==
  \E k \in 1..Len(log) : log[k].call \in {"GET", "PATCH", "NOTIFY"}

\* The handler in slot s has answered with error kind e.
Answered(s, op, e) ==
  req[s].pc = "done" /\ req[s].op = op /\ req[s].resp.error = e

\* ---------------------------------------------------------------- C1
\* No two cart items for the same donation are both claimed.
NoDoubleClaim ==
  \A i, j \in Ids :
    (i # j /\ Exists(i) /\ Exists(j)
       /\ cart[i].donation_id = cart[j].donation_id)
    => ~(cart[i].status = "claimed" /\ cart[j].status = "claimed")

\* At most one claim at a time is past a successful PATCH of a donation, and
\* none is once the donation's claim has been settled.
OneWinner ==
  \A d \in Donations :
    LET past == {s \in Slots : /\ req[s].pc = "claim_commit"
                               /\ req[s].donation_id = d}
    IN /\ Cardinality(past) <= 1
       /\ ledger[d].fate # "none" => past = {}

\* The claim in slot s lost the race for its donation: the gateway reported
\* the donation unavailable at the GET, or refused the PATCH of a donation
\* that is no longer available.
Lost(s) ==
  \/ Answered(s, "claim", "DonationNotAvailable")
  \/ Answered(s, "claim", "UpdateFailed") /\ ~available[req[s].donation_id]

\* A claim that lost leaves its item as it is, and (unless the inconsistent
\* window was opened) lost to exactly one claim that has committed its item
\* or is about to.
LoserRule ==
  \A s \in Slots :
    Lost(s) =>
      LET d == req[s].donation_id
          a == req[s].arg
      IN /\ ~available[d]
         /\ (ledger[d].item # a /\ Exists(a)) => cart[a].status = "pending"
         /\ \/ ledger[d].fate = "window"
            \/ /\ ledger[d].fate = "won"
               /\ Exists(ledger[d].item) => cart[ledger[d].item].status = "claimed"
            \/ /\ ledger[d].fate = "none"
               /\ \E t \in Slots \ {s} : /\ req[t].pc = "claim_commit"
                                         /\ req[t].donation_id = d

\* C1: of two concurrent claims of the same available donation by different
\* principals exactly one wins and commits its item; the other is answered
\* DonationNotAvailable (or the refusal of its PATCH) and its item stays
\* pending; two items of one donation are never both claimed.
C1_ExactlyOneClaimWins == NoDoubleClaim /\ OneWinner /\ LoserRule

\* Both claims saw the donation available, one won and committed, the other
\* was refused at the PATCH and its item is still pending.
C1_Witness ==
  \E s \in Slots :
    /\ Answered(s, "claim", "UpdateFailed")
    /\ Lost(s)
    /\ LET d == req[s].donation_id
           w == ledger[d].item
       IN /\ ledger[d].fate = "won"
          /\ w # req[s].arg
          /\ Exists(w) /\ Exists(req[s].arg)
          /\ cart[w].status = "claimed"
          /\ cart[w].user_email # req[s].user
          /\ cart[req[s].arg].status = "pending"
          /\ cart[req[s].arg].donation_id = cart[w].donation_id

\* ---------------------------------------------------------------- C2
\* Item i goes from not claimed to claimed in this step.
BecomesClaimed(i) ==
  /\ Exists(i) /\ Exists2(i)
  /\ cart[i].status # "claimed"
  /\ cart'[i].status = "claimed"

\* The answers of the gateway on which a claim must stop.
GatewayRefusals ==
  {Ev("GET", "unavailable"), Ev("GET", "status"), Ev("GET", "exception"),
   Ev("PATCH", "status"), Ev("PATCH", "exception")}

\* C2: an item becomes claimed only in the commit of a claim whose own PATCH
\* was answered with success; a claim whose GET or PATCH was refused or
\* failed answers with an error and leaves the cart store unchanged.
C2_CommitOnlyAfterPatch ==
  [][ /\ \A i \in Ids :
           BecomesClaimed(i) =>
             \E s \in Slots : /\ Steps(s)
                              /\ req[s].op = "claim" /\ req[s].arg = i
                              /\ req[s].log # <<>>
                              /\ Last(req[s].log) = Ev("PATCH", "ok")
      /\ \A s \in Slots, ev \in GatewayRefusals :
           (req[s].op = "claim" /\ Logs(s, ev)) =>
             /\ req'[s].pc = "done"
             /\ req'[s].resp.code \in {400, 503}
             /\ req'[s].resp.error \in {"DonationNotAvailable", "VerificationFailed",
                                        "UpdateFailed", "UpstreamUnavailable"}
             /\ cart' = cart
    ]_vars

\* A claim whose PATCH failed has answered with an error; its item is pending.
C2_Witness ==
  \E s \in Slots :
    /\ req[s].pc = "done" /\ req[s].op = "claim"
    /\ req[s].log # <<>>
    /\ Last(req[s].log).call = "PATCH"
    /\ Last(req[s].log).result \in {"status", "exception"}
    /\ req[s].resp.code \in {400, 503}
    /\ Exists(req[s].arg)
    /\ cart[req[s].arg].status = "pending"

\* ---------------------------------------------------------------- C3
\* C3: at most one cart item exists for a principal and a donation.
C3_UniquePair ==
  \A i, j \in Ids :
    (i # j /\ Exists(i) /\ Exists(j))
    => ~(/\ cart[i].user_email = cart[j].user_email
         /\ cart[i].donation_id = cart[j].donation_id)

\* An add passed the gateway lookup and was rejected by the unique index.
C3_Witness ==
  \E s \in Slots :
    /\ Answered(s, "add", "AlreadyInCart")
    /\ Last(req[s].log) = Ev("INSERT", "duplicate")
    /\ \E i \in Ids : /\ Exists(i)
                      /\ cart[i].user_email = req[s].user
                      /\ cart[i].donation_id = req[s].donation_id

\* ---------------------------------------------------------------- C4
\* C4: a claim by the owner of an item that is already claimed answers 200
\* with the summary of that item (the same at every call), changes neither
\* the cart store nor availability, and calls neither the gateway nor the
\* notification service.
C4_ClaimIdempotent ==
  [][ \A s \in Slots :
        LET a == req'[s].arg IN
        (/\ Starts(s, "claim")
         /\ a \in Ids
         /\ Exists(a)
         /\ cart[a].user_email = req'[s].user
         /\ cart[a].status = "claimed")
        => /\ req'[s].pc = "done"
           /\ req'[s].resp = [code |-> 200, error |-> "none",
                              body |-> [message |-> "Item already claimed",
                                        item_id |-> a,
                                        status |-> "claimed",
                                        donation_id |-> cart[a].donation_id]]
           /\ ~External(req'[s].log)
           /\ cart' = cart
           /\ available' = available
    ]_vars

\* The owner's claim of a claimed item has been answered "already claimed".
C4_Witness ==
  \E s \in Slots :
    /\ req[s].pc = "done" /\ req[s].op = "claim"
    /\ req[s].resp.code = 200
    /\ req[s].resp.body.message = "Item already claimed"
    /\ Exists(req[s].arg)
    /\ cart[req[s].arg].status = "claimed"
    /\ cart[req[s].arg].user_email = req[s].user

\* ---------------------------------------------------------------- C5
\* C5: an item that exists before and after a step keeps its status or goes
\* from pending to claimed.
C5_StatusOnlyPendingToClaimed ==
  [][ \A i \in Ids :
        (Exists(i) /\ Exists2(i)) =>
          \/ cart'[i].status = cart[i].status
          \/ cart[i].status = "pending" /\ cart'[i].status = "claimed"
    ]_vars

\* A claim has just committed its item and is about to notify.
C5_Witness ==
  \E s \in Slots :
    /\ req[s].pc = "claim_notify"
    /\ Exists(req[s].arg)
    /\ req[s].item.status = "pending"
    /\ cart[req[s].arg].status = "claimed"

\* ---------------------------------------------------------------- C6
\* C6: a stored item has claimed_at if and only if its status is claimed.
C6_ClaimedAtIffClaimed ==
  \A i \in Ids :
    Exists(i) => (cart[i].claimed_at # NoTime <=> cart[i].status = "claimed")

\* The store holds a claimed item with its claimed_at and a pending one
\* without.
C6_Witness ==
  \E i, j \in Ids :
    /\ Exists(i) /\ cart[i].status = "claimed" /\ cart[i].claimed_at \in Times
    /\ Exists(j) /\ cart[j].status = "pending" /\ cart[j].claimed_at = NoTime

\* ---------------------------------------------------------------- C7
\* C7: remove and claim check the id's format, then existence, then
\* ownership: a malformed id answers InvalidInput without a store lookup, an
\* id without a document NotFound, another principal's item Forbidden; the
\* cart store and availability are unchanged and no collaborator is called.
C7_CheckOrder ==
  [][ \A s \in Slots :
        (Starts(s, "remove") \/ Starts(s, "claim")) =>
          LET a == req'[s].arg
              u == req'[s].user
              Refused(code, e) ==
                /\ req'[s].pc = "done"
                /\ req'[s].resp = [code |-> code, error |-> e, body |-> NoSummary]
                /\ ~External(req'[s].log)
                /\ cart' = cart
                /\ available' = available
          IN /\ a = 0 => Refused(400, "InvalidInput") /\ req'[s].log = <<>>
             /\ (a # 0 /\ (a \notin Ids \/ ~Exists(a))) => Refused(404, "NotFound")
             /\ (a \in Ids /\ Exists(a) /\ cart[a].user_email # u)
                  => Refused(403, "Forbidden")
    ]_vars

\* A remove or claim of another principal's item has been answered Forbidden.
C7_Witness ==
  \E s \in Slots :
    /\ req[s].pc = "done" /\ req[s].op \in {"remove", "claim"}
    /\ req[s].resp.code = 403
    /\ req[s].arg \in Ids
    /\ Exists(req[s].arg)
    /\ cart[req[s].arg].user_email # req[s].user

\* ---------------------------------------------------------------- C8
\* The principal on whose behalf slot s takes this step.
Actor(s) == IF req[s].pc = "idle" THEN req'[s].user ELSE req[s].user

\* C8: a step of a request of principal p neither creates, changes nor
\* deletes a cart item of another principal.
C8_OthersItemsUntouched ==
  [][ \A s \in Slots :
        Steps(s) =>
          \A i \in Ids :
            (\/ Exists(i) /\ cart[i].user_email # Actor(s)
             \/ Exists2(i) /\ cart'[i].user_email # Actor(s))
            => cart'[i] = cart[i]
    ]_vars

\* A principal has cleared its cart while another principal's item is stored.
C8_Witness ==
  \E s \in Slots :
    /\ req[s].pc = "done" /\ req[s].op = "clear"
    /\ req[s].resp.code = 200
    /\ \E i \in Ids : Exists(i) /\ cart[i].user_email # req[s].user

\* ---------------------------------------------------------------- C9
\* C9: a claim whose GET or PATCH fails in transport answers 503
\* UpstreamUnavailable and leaves the cart store unchanged; a claim (a retry
\* among them) that the gateway answers healthily goes on: after a GET
\* reporting available to the PATCH, after a successful PATCH to the commit,
\* which sets the item claimed, and then to the 200 answer.
C9_TimeoutThenRetry ==
  [][ \A s \in Slots :
        req[s].op = "claim" =>
          /\ (Logs(s, Ev("GET", "exception")) \/ Logs(s, Ev("PATCH", "exception")))
               => /\ req'[s].pc = "done"
                  /\ req'[s].resp = [code |-> 503, error |-> "UpstreamUnavailable",
                                     body |-> NoSummary]
                  /\ cart' = cart
          /\ Logs(s, Ev("GET", "available")) => req'[s].pc = "claim_patch"
          /\ Logs(s, Ev("PATCH", "ok")) => req'[s].pc = "claim_commit"
          /\ (req[s].pc = "claim_commit" /\ Steps(s)
                /\ Exists(req[s].arg) /\ cart[req[s].arg].status = "pending"
                /\ Last(req'[s].log).result # "fault")
               => /\ req'[s].pc = "claim_notify"
                  /\ cart'[req[s].arg].status = "claimed"
          /\ (req[s].pc = "claim_notify" /\ Steps(s))
               => /\ req'[s].pc = "done"
                  /\ req'[s].resp.code = 200
                  /\ req'[s].resp.body.status = "claimed"
    ]_vars

\* The retry of a claim that was answered 503 has succeeded.
C9_Witness ==
  \E s \in Slots :
    /\ req[s].pc = "done" /\ req[s].op = "claim" /\ req[s].retry
    /\ req[s].resp.code = 200
    /\ req[s].resp.body.message = "Item claimed successfully"
    /\ Exists(req[s].arg)
    /\ cart[req[s].arg].status = "claimed"

\* ---------------------------------------------------------------- C10
\* C10: a cart item is created only by an add whose own lookup reported the
\* donation available; an add whose lookup answered anything else creates
\* nothing, and answers NotAvailable when the gateway reported the donation
\* missing or unavailable, as it does for a donation another user claimed.
C10_AddOnlyAvailable ==
  [][ /\ \A i \in Ids :
           (~Exists(i) /\ Exists2(i)) =>
             \E s \in Slots :
               /\ req[s].pc = "add_insert" /\ Steps(s)
               /\ req[s].log = <<Ev("GET", "available")>>
               /\ cart'[i].user_email = req[s].user
               /\ cart'[i].donation_id = req[s].donation_id
               /\ req'[s].resp.code = 201
      /\ \A s \in Slots :
           Starts(s, "add") =>
             /\ cart' = cart
             /\ \A r \in {"unavailable", "status"} :
                  (req'[s].log = <<Ev("GET", r)>>) =>
                    /\ req'[s].pc = "done"
                    /\ req'[s].resp = [code |-> 404, error |-> "NotAvailable",
                                       body |-> NoSummary]
             /\ (req'[s].donation_id \in Donations
                   /\ ~available[req'[s].donation_id])
                  => /\ req'[s].pc = "done"
                     /\ req'[s].resp.code \in {404, 500}
                     /\ req'[s].resp.code = 500
                          => req'[s].log = <<Ev("GET", "exception")>>
    ]_vars

\* User B's add of a donation that user A has claimed was answered
\* NotAvailable.
C10_Witness ==
  \E s \in Slots :
    /\ Answered(s, "add", "NotAvailable")
    /\ req[s].log = <<Ev("GET", "unavailable")>>
    /\ LET w == ledger[req[s].donation_id] IN
         /\ w.fate = "won"
         /\ Exists(w.item)
         /\ cart[w.item].status = "claimed"
         /\ cart[w.item].user_email # req[s].user
    /\ ~\E i \in Ids : /\ Exists(i)
                       /\ cart[i].user_email = req[s].user
                       /\ cart[i].donation_id = req[s].donation_id

\* ---------------------------------------------------------------- C11
\* The insert of the add in slot s returns in this step.
InsertReturns(s) == req[s].pc = "add_insert" /\ Steps(s)

\* C11: an add answers AlreadyInCart exactly when its insert is rejected
\* because an item of the caller for the donation exists; an insert that
\* fails in another way is answered with another error; the store is
\* unchanged either way.
C11_AlreadyInCartOnlyOnDuplicate ==
  [][ \A s \in Slots :
        InsertReturns(s) =>
          /\ req'[s].resp.error = "AlreadyInCart"
               <=> DuplicateKey(cart, req[s].item)
          /\ Last(req'[s].log) = Ev("INSERT", "fault")
               => /\ req'[s].resp.error \notin {"AlreadyInCart", "none"}
                  /\ cart' = cart
          /\ req'[s].resp.error = "AlreadyInCart" => cart' = cart
    ]_vars

\* ---------------------------------------------------------------- C12
\* C12: whatever the outcome of the notification, the claim that committed
\* its item answers 200 with the claim summary, and the step changes neither
\* the cart store nor the donation's availability.
C12_NotificationNeverFailsClaim ==
  [][ \A s \in Slots :
        (req[s].pc = "claim_notify" /\ Steps(s)) =>
          /\ req'[s].pc = "done"
          /\ req'[s].resp.code = 200
          /\ req'[s].resp.error = "none"
          /\ req'[s].resp.body = ClaimedSummary(req[s].arg, req[s].item)
          /\ cart' = cart
          /\ available' = available
          /\ ~available[req[s].donation_id]
          /\ Exists(req[s].arg) => cart'[req[s].arg].status = "claimed"
    ]_vars

\* A claim whose notification failed has answered 200; its item is claimed
\* and its donation unavailable.
C12_Witness ==
  \E s \in Slots :
    /\ req[s].pc = "done" /\ req[s].op = "claim"
    /\ req[s].log # <<>>
    /\ Last(req[s].log).call = "NOTIFY"
    /\ Last(req[s].log).result \in {"status", "exception", "keyerror"}
    /\ req[s].resp.code = 200
    /\ Exists(req[s].arg)
    /\ cart[req[s].arg].status = "claimed"
    /\ ~available[req[s].donation_id]

\* ---------------------------------------------------------------- C13
\* The trace of slot s holds a gateway call that failed in transport.
TransportFailure(s) ==
  \E k \in 1..Len(req[s].log) :
    req[s].log[k] \in {Ev("GET", "exception"), Ev("PATCH", "exception")}

\* C13: an add, list or claim whose gateway call failed in transport has
\* answered 503 UpstreamUnavailable; no request ends in an unhandled
\* exception.
C13_TransportFailuresCaught ==
  \A s \in Slots :
    req[s].pc = "done" =>
      /\ req[s].resp.error # "UnhandledException"
      /\ (req[s].op \in {"add", "list", "claim"} /\ TransportFailure(s))
           => req[s].resp = Resp(503, "UpstreamUnavailable", NoSummary)

\* ---------------------------------------------------------------- C14
\* The trace holds a notification attempt.
Notified(log) == \E k \in 1..Len(log) : log[k].call = "NOTIFY"

\* C14: the commit is reached only after a successful PATCH; when the write
\* raises or modifies no document (the item was deleted meanwhile), the claim
\* answers 500 InternalError without a notification attempt, and leaves the
\* donation unavailable and the item not claimed.
C14_CommitFailureIsInternalError ==
  [][ \A s \in Slots :
        (req[s].pc = "claim_commit" /\ Steps(s)) =>
          LET a == req[s].arg
              d == req[s].donation_id
              result == Last(req'[s].log).result
          IN /\ Last(req[s].log) = Ev("PATCH", "ok")
             /\ Last(req'[s].log).call = "COMMIT"
             /\ ~Exists(a) => result \in {"fault", "none"}
             /\ result \in {"fault", "none"} =>
                  /\ req'[s].pc = "done"
                  /\ req'[s].resp = Resp(500, "InternalError", NoSummary)
                  /\ ~Notified(req'[s].log)
                  /\ cart' = cart
                  /\ ~available'[d]
                  /\ Exists2(a) => cart'[a].status # "claimed"
    ]_vars

\* A claim whose item was deleted between its PATCH and its commit has
\* answered 500; the donation is unavailable and no item is claimed for it.
C14_Witness ==
  \E s \in Slots :
    /\ Answered(s, "claim", "InternalError")
    /\ req[s].resp.code = 500
    /\ Last(req[s].log) = Ev("COMMIT", "none")
    /\ ~Exists(req[s].arg)
    /\ ~available[req[s].donation_id]
    /\ ledger[req[s].donation_id] = [fate |-> "window", item |-> req[s].arg]

\* ---------------------------------------------------------------- C15
\* C15: a clear deletes every item of the caller, whatever its status, and
\* no other; it answers 200 with the number deleted, or 404 "nothing to
\* clear" with the store unchanged when the caller had no item.
C15_ClearDeletesAll ==
  [][ \A s \in Slots :
        Starts(s, "clear") =>
          LET u == req'[s].user
              mine == {i \in Ids : Exists(i) /\ cart[i].user_email = u}
          IN /\ \A i \in mine : ~Exists2(i)
             /\ \A i \in Ids \ mine : cart'[i] = cart[i]
             /\ req'[s].pc = "done"
             /\ mine # {} =>
                  req'[s].resp = Resp(200, "none",
                                      [message |-> "Cart completely cleared",
                                       deleted_count |-> Cardinality(mine)])
             /\ mine = {} =>
                  /\ req'[s].resp = Resp(404, "NothingToClear", NoSummary)
                  /\ cart' = cart
    ]_vars

\* A clear has deleted two items of the caller, one of them claimed, and
\* nothing of the caller is left.
C15_Witness ==
  \E s \in Slots :
    /\ req[s].pc = "done" /\ req[s].op = "clear"
    /\ req[s].resp.code = 200
    /\ req[s].resp.body.deleted_count = 2
    /\ \A i \in Ids : Exists(i) => cart[i].user_email # req[s].user
    /\ \E d \in Donations : /\ ledger[d].fate = "won"
                            /\ ledger[d].item \in Ids
                            /\ ~Exists(ledger[d].item)

\* ---------------------------------------------------------------- C16
\* The claim in slot s gets the answer r to its PATCH in this step.
PatchAnswered(s, r) == req[s].op = "claim" /\ Logs(s, Ev("PATCH", r))

\* The effects of the claims of an item that happen at most once: a PATCH is
\* answered 200 only if none was before, the commit is reached only if the
\* item was not written before, it writes only a pending item without
\* claimed_at, a notification is attempted only if none was before, and
\* claimed_at changes only from absent, with the status going to claimed.
EffectsOnce ==
  /\ \A s \in Slots :
       LET a == req[s].arg IN
       /\ PatchAnswered(s, "ok") => ~tally[a].ok
       /\ (req[s].pc = "claim_commit" /\ Steps(s)) => ~tally[a].commit
       /\ (req[s].op = "claim" /\ Logs(s, Ev("COMMIT", "ok"))) =>
            /\ Exists(a)
            /\ cart[a].status = "pending"
            /\ cart[a].claimed_at = NoTime
       /\ (req[s].pc = "claim_notify" /\ Steps(s)) => ~tally[a].notify
  /\ \A i \in Ids :
       (Exists(i) /\ Exists2(i) /\ cart'[i].claimed_at # cart[i].claimed_at) =>
         /\ cart[i].claimed_at = NoTime
         /\ BecomesClaimed(i)

\* A PATCH call is made for an item only if none was made for it before.
PatchSentOnce ==
  \A s \in Slots :
    (\E r \in {"ok", "status", "exception"} : PatchAnswered(s, r))
      => ~tally[req[s].arg].sent

\* C16 as stated: the write of status and claimed_at, the gateway PATCH and
\* the notification each happen at most once per item.
C16_PatchAtMostOnce == [][EffectsOnce /\ PatchSentOnce]_vars

\* C16 as amended: the write of status and claimed_at and the notification
\* attempt each happen at most once per item, and a PATCH is answered with
\* success at most once per item; claimed_at is written only on the step from
\* pending to claimed.  The PATCH call itself may be repeated.
C16_EffectsAtMostOnce == [][EffectsOnce]_vars

\* Two claims of one pending item by its owner ran concurrently: one has
\* committed the item, the other was refused at its PATCH.
C16_Witness ==
  \E s, t \in Slots :
    /\ s # t
    /\ Answered(s, "claim", "UpdateFailed")
    /\ req[t].pc = "claim_notify"
    /\ req[t].arg = req[s].arg
    /\ req[t].user = req[s].user
    /\ Exists(req[s].arg)
    /\ cart[req[s].arg].status = "claimed"
    /\ tally[req[s].arg] = [sent |-> TRUE, ok |-> TRUE, commit |-> TRUE,
                             notify |-> FALSE]

\* ---------------------------------------------------------------- C17
\* C17: a notification attempt is the last entry of the trace of a claim,
\* right after its successful commit, which is right after its successful
\* PATCH; a claim that answered with an error, and every other operation,
\* made no notification attempt.
C17_NotifyOnlyAfterCommit ==
  \A s \in Slots :
    LET log == req[s].log IN
    /\ \A k \in 1..Len(log) :
         /\ log[k].call = "NOTIFY" =>
              /\ req[s].op = "claim"
              /\ k = Len(log)
              /\ k >= 3
              /\ log[k - 1] = Ev("COMMIT", "ok")
              /\ log[k - 2] = Ev("PATCH", "ok")
         /\ log[k].call = "COMMIT" => (k >= 2 /\ log[k - 1] = Ev("PATCH", "ok"))
    /\ (req[s].pc = "done" /\ req[s].resp.error # "none") => ~Notified(log)
    /\ req[s].pc = "claim_notify" =>
         (Exists(req[s].arg) => cart[req[s].arg].status = "claimed")

\* A claim has answered 200 after PATCH, commit and notification, in order.
C17_Witness ==
  \E s \in Slots :
    /\ req[s].pc = "done" /\ req[s].op = "claim"
    /\ req[s].resp.code = 200
    /\ req[s].log = <<Ev("FIND", "ok"), Ev("GET", "available"),
                      Ev("PATCH", "ok"), Ev("COMMIT", "ok"), Ev("NOTIFY", "ok")>>

\* ---------------------------------------------------------------- C18
\* C18: an item that exists before and after a step keeps user_email,
\* donation_id, created_at and notes; a step changes a stored document only
\* in the commit of a claim of that item, and no other document with it.
C18_FieldsImmutable ==
  [][ \A i \in Ids :
        (Exists(i) /\ Exists2(i)) =>
          /\ cart'[i].user_email = cart[i].user_email
          /\ cart'[i].donation_id = cart[i].donation_id
          /\ cart'[i].created_at = cart[i].created_at
          /\ cart'[i].notes = cart[i].notes
          /\ cart'[i] # cart[i] =>
               /\ \E s \in Slots : /\ req[s].pc = "claim_commit" /\ Steps(s)
                                   /\ req[s].arg = i
               /\ \A j \in Ids \ {i} : cart'[j] = cart[j]
    ]_vars

\* A claim has just committed: its item differs from the document it read
\* in status and claimed_at only, and another item is stored beside it.
C18_Witness ==
  \E s \in Slots :
    /\ req[s].pc = "claim_notify"
    /\ Exists(req[s].arg)
    /\ cart[req[s].arg].claimed_at \in Times
    /\ cart[req[s].arg] = [req[s].item EXCEPT !.status = "claimed",
                             !.claimed_at = cart[req[s].arg].claimed_at]
    /\ \E j \in Ids \ {req[s].arg} : Exists(j)

\* ---------------------------------------------------------------- C19
\* C19: a list changes neither the cart store nor availability; when every
\* lookup was answered, it answers 200 with exactly the caller's items whose
\* lookup answered 200, each once and as stored, in the store's order, and
\* with no item of another principal.
C19_ListReturnsOwnLookedUp ==
  [][ \A s \in Slots :
        Starts(s, "list") =>
          LET u == req'[s].user
              log == req'[s].log
              user_cart == Cursor(cart, FindByUser(cart, u))
              n == Len(user_cart)
              kept == {k \in 1..n : log[k + 1] = Ev("GET", "ok")}
          IN /\ cart' = cart
             /\ available' = available
             /\ req'[s].pc = "done"
             /\ \A k \in 1..Len(log) : log[k].call \in {"FIND", "GET"}
             /\ (\A k \in 1..Len(log) : log[k].result # "exception") =>
                  /\ Len(log) = n + 1
                  /\ req'[s].resp.code = 200
                  /\ req'[s].resp.error = "none"
                  /\ LET items == req'[s].resp.body.items IN
                       /\ Len(items) = Cardinality(kept)
                       /\ {items[k]._id : k \in 1..Len(items)}
                            = {user_cart[k]._id : k \in kept}
                       /\ \A k \in 1..Len(items) :
                            /\ items[k].doc = cart[items[k]._id]
                            /\ items[k].doc.user_email = u
                       /\ \A j, k \in 1..Len(items) :
                            j < k => items[j]._id < items[k]._id
    ]_vars

\* A list of a cart of two items has returned the one whose lookup answered
\* 200 and left out the one whose lookup answered another status.
C19_Witness ==
  \E s \in Slots :
    /\ req[s].pc = "done" /\ req[s].op = "list"
    /\ req[s].resp.code = 200
    /\ Len(req[s].log) = 3
    /\ \E k \in 2..3 : req[s].log[k] = Ev("GET", "status")
    /\ Len(req[s].resp.body.items) = 1
    /\ req[s].resp.body.items[1].doc.user_email = req[s].user

\* ---------------------------------------------------------------- C20
\* Item i is in the inconsistent window: it is pending, its donation was
\* made unavailable by a claim of i that ended without committing, and no
\* claim that saw the donation available is still on its way.
Window(i) ==
  /\ Exists(i)
  /\ cart[i].status = "pending"
  /\ ~available[cart[i].donation_id]
  /\ ledger[cart[i].donation_id] = [fate |-> "window", item |-> i]
  /\ \A s \in Slots :
       req[s].pc \in {"claim_patch", "claim_commit"}
         => req[s].donation_id # cart[i].donation_id

\* C20: while an item is in the inconsistent window no step changes it other
\* than by deleting it, no step makes its donation available or settles the
\* window, a new claim of it by its owner goes to the gateway lookup, and a
\* claim of it whose lookup reports the donation unavailable answers
\* DonationNotAvailable.
C20_WindowNeverRepaired ==
  [][ \A i \in Ids :
        Window(i) =>
          LET d == cart[i].donation_id IN
          /\ Exists2(i) => (cart'[i] = cart[i] /\ Window(i)')
          /\ ~available'[d]
          /\ \A s \in Slots :
               /\ (Starts(s, "claim") /\ req'[s].arg = i
                     /\ req'[s].user = cart[i].user_email)
                    => req'[s].pc = "claim_get"
               /\ (req[s].op = "claim" /\ req[s].arg = i
                     /\ Logs(s, Ev("GET", "unavailable")))
                    => /\ req'[s].pc = "done"
                       /\ req'[s].resp =
                            Resp(400, "DonationNotAvailable", NoSummary)
               /\ (req[s].op = "claim" /\ req[s].arg = i /\ Steps(s))
                    => req'[s].pc \notin {"claim_commit", "claim_notify"}
    ]_vars

\* A later claim of an item in the inconsistent window has been answered
\* DonationNotAvailable; the item is still pending.
C20_Witness ==
  \E s \in Slots :
    /\ Answered(s, "claim", "DonationNotAvailable")
    /\ req[s].arg \in Ids
    /\ Window(req[s].arg)
    /\ req[s].log = <<Ev("FIND", "ok"), Ev("GET", "unavailable")>>

====
